---- MODULE Spec2Model ----
(***************************************************************************)
(* validate.py: the validation pipeline of the card-data repository.       *)
(*                                                                         *)
(* Spec        one run of main(): cycles, then the pack index, then the    *)
(*             cards of every pack, then the summary line and exit status. *)
(* LoaderSpec  load_json_file called on one file, MaxLoads times in a row. *)
(*                                                                         *)
(* A file's text is modelled by what decides the code's branches: whether  *)
(* it decodes and parses, the kind of value it parses to, and its layout   *)
(* (indentation, key order, trailing newline, an escaped lone surrogate).  *)
(* The elements of a list document, and where the list ends, are inputs    *)
(* drawn when the loop that iterates the list reaches them.                *)
(***************************************************************************)
EXTENDS Integers, Sequences, FiniteSets, TLC

\* Bounds of the model: the longest cycles.json, packs.json and pack file,
\* and the number of calls in LoaderSpec.
MaxCycles == 2
MaxPacks == 2
MaxCards == 2
MaxLoads == 2

---------------------------------------------------------------------------
\* Python values

\* dict.get(k) of a missing key, and the marker of a key a document lacks
Absent == "absent"

\* Codes that cycles and packs use.
Codes == {"a", "b"}

CodeOrAbsent == Codes \cup {Absent}

NameOrAbsent == {"n", Absent}

\* An element of cycles.json: a JSON object with or without its properties,
\* or a value that is no object (a string, a number, a list).
CycleItems ==
    [obj : {TRUE}, code : CodeOrAbsent, name : NameOrAbsent]
    \cup {[obj |-> FALSE, code |-> Absent, name |-> Absent]}

\* An element of packs.json.
PackItems ==
    [obj : {TRUE}, code : CodeOrAbsent, name : NameOrAbsent, cycle_code : CodeOrAbsent]
    \cup {[obj |-> FALSE, code |-> Absent, name |-> Absent, cycle_code |-> Absent]}

\* An element of a pack file.
CardItems ==
    [obj : {TRUE}, code : {"c", Absent}, name : NameOrAbsent, pack_code : CodeOrAbsent]
    \cup {[obj |-> FALSE, code |-> Absent, name |-> Absent, pack_code |-> Absent]}

\* validate_packs' p before the first pack
NoPack == [obj |-> FALSE, code |-> "none", name |-> "none", cycle_code |-> "none"]

\* validate_card's card before the first card
NoCard == [obj |-> FALSE, code |-> "none", name |-> "none", pack_code |-> "none"]

\* The kinds of value a JSON text parses to.  "object" is a non-empty object
\* that is no valid Draft 4 schema, "schema" a non-empty object that is one,
\* "number" a non-zero number, "list" a non-empty list.
DocKinds == {"null", "empty_list", "empty_object", "number", "object", "schema", "list"}

\* Python None as a returned document
NoneValue == [doc |-> "None", surrogate |-> FALSE]

\* `not x` is False
Truthy(v) == v.doc \notin {"None", "empty_list", "empty_object"}

\* isinstance(x, list)
IsList(v) == v.doc \in {"empty_list", "list"}

\* A list of n elements so far may end here.
MayEnd(v, n) == IF v.doc = "list" THEN n >= 1 ELSE n = 0

\* main's cycles / packs: None, or the list
NoneList == [none |-> TRUE, items |-> <<>>]

ListOf(items) == [none |-> FALSE, items |-> items]

CodesOf(items) == {items[i].code : i \in 1..Len(items)}

---------------------------------------------------------------------------
\* File texts

HasMembers(doc) == doc \in {"object", "schema", "list"}

NonJson(kind) ==
    [kind |-> kind, doc |-> "None", indent |-> 4, sorted |-> TRUE, newline |-> TRUE,
     surrogate |-> "none"]

\* open() fails: the file does not exist or cannot be read
MissingFile == NonJson("missing")

\* a file of no bytes
EmptyFile == NonJson("empty")

\* The JSON texts.  Indentation, key order and \uD800-style escapes exist only
\* in documents that have members.
JsonTexts ==
    { t \in [kind : {"json"}, doc : DocKinds, indent : {2, 4}, sorted : BOOLEAN,
             newline : BOOLEAN, surrogate : {"none", "escaped"}] :
        ~HasMembers(t.doc) => (t.indent = 4 /\ t.sorted /\ t.surrogate = "none") }

Texts ==
    {MissingFile, EmptyFile, NonJson("undecodable"), NonJson("malformed")} \cup JsonTexts

\* The texts of the files of a run of main: no lone-surrogate escapes.
RunTexts == {t \in Texts : t.surrogate = "none"}

\* bin_data.decode("utf-8") and json.loads succeed
Parses(raw) == raw.kind = "json"

json_loads(raw) ==
    IF raw.doc = "null" THEN NoneValue
    ELSE [doc |-> raw.doc, surrogate |-> raw.surrogate # "none"]

format_json(json_data) ==
    [kind |-> "json",
     doc |-> IF json_data.doc = "None" THEN "null" ELSE json_data.doc,
     indent |-> 4, sorted |-> TRUE, newline |-> TRUE,
     surrogate |-> IF json_data.surrogate THEN "literal" ELSE "none"]

\* formatted_raw_data.encode("utf-8") succeeds
Encodes(text) == text.surrogate # "literal"

\* load_json_file on a file of content raw; writable: open(path, "wb") succeeds.
\* raised: the exception that leaves the function, ret: the value returned,
\* fe, ve: what is added to the counters, disk: the file's content afterwards.
load_json_file(raw, fix_formatting_, writable) ==
    IF raw.kind = "missing" THEN
        [raised |-> "IOError", ret |-> NoneValue, fe |-> 0, ve |-> 0, disk |-> raw]
    ELSE IF ~Parses(raw) THEN
        [raised |-> "none", ret |-> NoneValue, fe |-> 0, ve |-> 1, disk |-> raw]
    ELSE
        LET json_data == json_loads(raw)
            formatted_raw_data == format_json(json_data)
        IN  IF formatted_raw_data = raw THEN
                [raised |-> "none", ret |-> json_data, fe |-> 0, ve |-> 0, disk |-> raw]
            ELSE IF ~fix_formatting_ \/ ~writable THEN
                [raised |-> "none", ret |-> json_data, fe |-> 1, ve |-> 0, disk |-> raw]
            ELSE IF ~Encodes(formatted_raw_data) THEN
                [raised |-> "UnicodeEncodeError", ret |-> NoneValue, fe |-> 1, ve |-> 0,
                 disk |-> EmptyFile]
            ELSE
                [raised |-> "none", ret |-> json_data, fe |-> 1, ve |-> 0,
                 disk |-> formatted_raw_data]

---------------------------------------------------------------------------
\* The schema engine and the repository's three schemas

\* jsonschema.Draft4Validator.check_schema(data) raises no SchemaError
Draft4Valid(data) == data.doc \in {"empty_object", "schema"}

\* A check_json_schema that accepts every document (mutation of the one below)
check_json_schema_accepting(data) == [ok |-> TRUE, ve |-> 0]

\* check_json_schema: the value returned and what is added to validation_errors
check_json_schema(data) ==
    [ok |-> Draft4Valid(data), ve |-> IF Draft4Valid(data) THEN 0 ELSE 1]

\* The properties schema/cycle_schema.json, pack_schema.json and
\* card_schema.json require of an object.
CycleRequired == {"code", "name"}

PackRequired == {"code", "name", "cycle_code"}

CardRequired == {"code", "name", "pack_code"}

\* jsonschema.validate(instance, schema) raises no ValidationError
jsonschema_validate(instance, required) ==
    instance.obj /\ \A k \in required : instance[k] # Absent

\* A custom_pack_check that never compares cycle codes (mutation of the one
\* below)
custom_pack_check_unchecked(pack_, cycles_data_) ==
    IF cycles_data_.none THEN "TypeError" ELSE "ok"

\* custom_pack_check on a pack that passed the schema: "raises" a
\* ValidationError, "TypeError" when cycles_data is None, else "ok"
custom_pack_check(pack_, cycles_data_) ==
    IF cycles_data_.none THEN "TypeError"
    ELSE IF pack_.cycle_code \notin CodesOf(cycles_data_.items) THEN "raises"
    ELSE "ok"

\* custom_card_check on a card that passed the schema
custom_card_check(card_, pack_code) ==
    IF card_.pack_code # pack_code THEN "raises" ELSE "ok"

\* load_cycles' return value, given validate_cycles' and the list
load_cycles_return(valid, items) == IF valid THEN ListOf(items) ELSE NoneList

\* load_pack_index's return value, given validate_packs' and the list, when
\* no pack file is missing
load_pack_index_return(valid, items) == IF valid THEN ListOf(items) ELSE NoneList

\* A gate that lets an empty pack list through (mutation of the one below)
cards_stage_runs_on_empty(packs_) == ~packs_.none

\* main: `if packs:`
cards_stage_runs(packs_) == ~packs_.none /\ Len(packs_.items) > 0

\* An exit status that is 0 as soon as one counter is zero (mutation of the one
\* below)
exit_code_either(fe, ve) == IF fe = 0 \/ ve = 0 THEN 0 ELSE 1

\* main: the status handed to sys.exit after the summary line
exit_code(fe, ve) == IF fe = 0 /\ ve = 0 THEN 0 ELSE 1

---------------------------------------------------------------------------
\* Paths

CyclesPath == <<"base", "cycles.json">>

PacksPath == <<"base", "packs.json">>

CycleSchemaPath == <<"schema", "cycle_schema.json">>

PackSchemaPath == <<"schema", "pack_schema.json">>

CardSchemaPath == <<"schema", "card_schema.json">>

PackPath(code) == <<"pack", code>>

SchemaPaths == {CycleSchemaPath, PackSchemaPath, CardSchemaPath}

Paths ==
    {CyclesPath, PacksPath} \cup SchemaPaths \cup {PackPath(c) : c \in Codes}

\* What the run found in a schema file: that it cannot be read or parsed, or
\* the kind of document in it.
SchemaFound(raw) ==
    IF Parses(raw) THEN raw.doc
    ELSE IF raw.kind = "missing" THEN "missing" ELSE "not_json"

\* What the run found in cycles.json or packs.json.
IndexFound(raw) ==
    IF ~Parses(raw) THEN (IF raw.kind = "missing" THEN "missing" ELSE "not_json")
    ELSE IF IsList(json_loads(raw)) THEN raw.doc ELSE "not_list"

---------------------------------------------------------------------------
VARIABLES
    fix_formatting,     \* args.fix_formatting
    formatting_errors,  \* global counter
    validation_errors,  \* global counter
    pc,                 \* where the run is
    files,              \* per path: "unopened", or what the run found there
    cycles_data,        \* load_cycles: the document load_json_file returned
    cycle_items,        \* validate_cycles: the elements of cycles_data iterated
    cycles,             \* main: cycles
    packs_data,         \* load_pack_index: the document load_json_file returned
    pack_n,             \* validate_packs: the number of packs iterated
    pack,               \* validate_packs: p
    pack_items,         \* validate_packs: the packs iterated, see validate_pack
    packs,              \* main: packs
    retval,             \* validate_cycles / validate_packs: retval
    pack_j,             \* validate_cards: index of p in packs_data
    pack_data,          \* validate_cards: the document of the current pack file
    card_i,             \* validate_cards: cards of pack_data handed to validate_card
    card,               \* validate_card: card
    out,                \* lines written to stdout at any verbosity
    exception,          \* the exception that ended the run, or "none"
    exit_status,        \* the process's exit status, -1 while it runs
    disk,               \* LoaderSpec: the content of the file
    ret,                \* LoaderSpec: what the last load_json_file returned
    loads               \* LoaderSpec: calls of load_json_file so far

vars ==
    <<fix_formatting, formatting_errors, validation_errors, pc, files, cycles_data,
      cycle_items, cycles, packs_data, pack_n, pack, pack_items, packs, retval,
      pack_j, pack_data, card_i, card, out, exception, exit_status, disk, ret, loads>>

cycle_vars == <<cycles_data, cycle_items, cycles>>

pack_vars == <<packs_data, pack_n, pack, pack_items, packs>>

card_vars == <<pack_j, pack_data, card_i, card>>

loader_vars == <<disk, ret, loads>>

end_vars == <<out, exception, exit_status>>

\* main, lines 235-238: the counters are reset and the command line is parsed
Init ==
    /\ fix_formatting \in BOOLEAN
    /\ formatting_errors = 0
    /\ validation_errors = 0
    /\ pc = "load_cycles"
    /\ files = [q \in Paths |-> "unopened"]
    /\ cycles_data = NoneValue
    /\ cycle_items = <<>>
    /\ cycles = NoneList
    /\ packs_data = NoneValue
    /\ pack_n = 0
    /\ pack = NoPack
    /\ pack_items = <<>>
    /\ packs = NoneList
    /\ retval = TRUE
    /\ pack_j = 0
    /\ pack_data = NoneValue
    /\ card_i = 0
    /\ card = NoCard
    /\ out = {}
    /\ exception = "none"
    /\ exit_status = -1
    /\ disk = MissingFile
    /\ ret = NoneValue
    /\ loads = 0

\* An exception, or the SystemExit of sys.exit(message), leaves main: the
\* interpreter ends with status 1.
Terminate(e) ==
    /\ pc' = "exited"
    /\ exception' = e
    /\ exit_status' = 1
    /\ out' = out

\* load_cycles, lines 86-89: cycles.json is loaded.
load_cycles ==
    /\ pc = "load_cycles"
    /\ \E raw \in RunTexts, writable \in BOOLEAN :
         LET r == load_json_file(raw, fix_formatting, writable)
         IN  /\ files' = [files EXCEPT ![CyclesPath] = IndexFound(raw)]
             /\ formatting_errors' = formatting_errors + r.fe
             /\ validation_errors' = validation_errors + r.ve
             /\ IF r.raised # "none"
                THEN Terminate(r.raised) /\ UNCHANGED cycles_data
                ELSE /\ cycles_data' = r.ret
                     /\ pc' = "validate_cycles"
                     /\ UNCHANGED end_vars
    /\ UNCHANGED <<fix_formatting, cycle_items, cycles, pack_vars, retval, card_vars,
                   loader_vars>>

\* validate_cycles, lines 167-181: the cycle schema is loaded, then the shape
\* of cycles_data and the schema are checked.  A False here makes load_cycles
\* return None to main, lines 91-92, and the locals of both are gone.
validate_cycles ==
    /\ pc = "validate_cycles"
    /\ \E raw \in RunTexts, writable \in BOOLEAN :
         LET r == load_json_file(raw, fix_formatting, writable)
             CYCLE_SCHEMA == r.ret
             checked == check_json_schema(CYCLE_SCHEMA)
         IN  /\ files' = [files EXCEPT ![CycleSchemaPath] = SchemaFound(raw)]
             /\ formatting_errors' = formatting_errors + r.fe
             /\ IF r.raised # "none" THEN
                    /\ Terminate(r.raised)
                    /\ validation_errors' = validation_errors + r.ve
                    /\ UNCHANGED <<cycles_data, cycles>>
                ELSE IF ~IsList(cycles_data) \/ ~Truthy(CYCLE_SCHEMA) THEN
                    /\ validation_errors' = validation_errors + r.ve
                    /\ cycles' = load_cycles_return(FALSE, <<>>)
                    /\ cycles_data' = NoneValue
                    /\ pc' = "load_pack_index"
                    /\ UNCHANGED end_vars
                ELSE IF ~checked.ok THEN
                    /\ validation_errors' = validation_errors + r.ve + checked.ve
                    /\ cycles' = load_cycles_return(FALSE, <<>>)
                    /\ cycles_data' = NoneValue
                    /\ pc' = "load_pack_index"
                    /\ UNCHANGED end_vars
                ELSE
                    /\ validation_errors' = validation_errors + r.ve
                    /\ pc' = "validate_cycles_loop"
                    /\ UNCHANGED <<cycles_data, cycles, end_vars>>
    /\ retval' = TRUE
    /\ UNCHANGED <<fix_formatting, cycle_items, pack_vars, card_vars, loader_vars>>

\* validate_cycles, lines 182-192: one pass of the loop, on the next cycle.
\* The cycles of cycles.json that have a code have different codes.
validate_cycle ==
    /\ pc = "validate_cycles_loop"
    /\ cycles_data.doc = "list"
    /\ Len(cycle_items) < MaxCycles
    /\ \E c \in CycleItems :
         /\ c.code = Absent \/ c.code \notin CodesOf(cycle_items)
         /\ cycle_items' = Append(cycle_items, c)
         /\ IF ~c.obj THEN
                \* c.get("name") of a value that has no get
                /\ Terminate("AttributeError")
                /\ UNCHANGED <<validation_errors, retval>>
            ELSE IF jsonschema_validate(c, CycleRequired) THEN
                UNCHANGED <<validation_errors, retval, pc, end_vars>>
            ELSE
                /\ validation_errors' = validation_errors + 1
                /\ retval' = FALSE
                /\ UNCHANGED <<pc, end_vars>>
    /\ UNCHANGED <<fix_formatting, formatting_errors, files, cycles_data, cycles,
                   pack_vars, card_vars, loader_vars>>

\* validate_cycles, line 194, and load_cycles, lines 91-94: the loop is over;
\* main receives the list, or None.  The locals of the two functions are gone.
validate_cycles_return ==
    /\ pc = "validate_cycles_loop"
    /\ MayEnd(cycles_data, Len(cycle_items))
    /\ cycles' = load_cycles_return(retval, cycle_items)
    /\ cycles_data' = NoneValue
    /\ cycle_items' = <<>>
    /\ retval' = TRUE
    /\ pc' = "load_pack_index"
    /\ UNCHANGED <<fix_formatting, formatting_errors, validation_errors, files,
                   pack_vars, card_vars, loader_vars, end_vars>>

\* load_pack_index, lines 96-99: packs.json is loaded.
load_pack_index ==
    /\ pc = "load_pack_index"
    /\ \E raw \in RunTexts, writable \in BOOLEAN :
         LET r == load_json_file(raw, fix_formatting, writable)
         IN  /\ files' = [files EXCEPT ![PacksPath] = IndexFound(raw)]
             /\ formatting_errors' = formatting_errors + r.fe
             /\ validation_errors' = validation_errors + r.ve
             /\ IF r.raised # "none"
                THEN Terminate(r.raised) /\ UNCHANGED packs_data
                ELSE /\ packs_data' = r.ret
                     /\ pc' = "validate_packs"
                     /\ UNCHANGED end_vars
    /\ UNCHANGED <<fix_formatting, cycle_vars, pack_n, pack, pack_items, packs, retval,
                   card_vars, loader_vars>>

\* validate_packs, lines 196-210: the pack schema is loaded, then the shape of
\* packs_data and the schema are checked.  A False here makes load_pack_index
\* return None to main, lines 101-102, and the locals of both are gone.
validate_packs ==
    /\ pc = "validate_packs"
    /\ \E raw \in RunTexts, writable \in BOOLEAN :
         LET r == load_json_file(raw, fix_formatting, writable)
             PACK_SCHEMA == r.ret
             checked == check_json_schema(PACK_SCHEMA)
         IN  /\ files' = [files EXCEPT ![PackSchemaPath] = SchemaFound(raw)]
             /\ formatting_errors' = formatting_errors + r.fe
             /\ IF r.raised # "none" THEN
                    /\ Terminate(r.raised)
                    /\ validation_errors' = validation_errors + r.ve
                    /\ UNCHANGED <<packs_data, packs>>
                ELSE IF ~IsList(packs_data) \/ ~Truthy(PACK_SCHEMA) THEN
                    /\ validation_errors' = validation_errors + r.ve
                    /\ packs' = load_pack_index_return(FALSE, <<>>)
                    /\ packs_data' = NoneValue
                    /\ pc' = "main_cards"
                    /\ UNCHANGED end_vars
                ELSE IF ~checked.ok THEN
                    /\ validation_errors' = validation_errors + r.ve + checked.ve
                    /\ packs' = load_pack_index_return(FALSE, <<>>)
                    /\ packs_data' = NoneValue
                    /\ pc' = "main_cards"
                    /\ UNCHANGED end_vars
                ELSE
                    /\ validation_errors' = validation_errors + r.ve
                    /\ pc' = "validate_packs_loop"
                    /\ UNCHANGED <<packs_data, packs, end_vars>>
    /\ retval' = TRUE
    /\ UNCHANGED <<fix_formatting, cycle_vars, pack_n, pack, pack_items, card_vars,
                   loader_vars>>

\* validate_packs, lines 211-222: one pass of the loop, on the next pack.
\* pack_items is the list iterated so far while all of it is valid, the list
\* load_pack_index may still return: after an invalid pack it can only return
\* None and the list is never read again.  The packs of such a list have
\* different codes (each names its own file).
validate_pack ==
    /\ pc = "validate_packs_loop"
    /\ packs_data.doc = "list"
    /\ pack_n < MaxPacks
    /\ \E p \in PackItems :
         /\ p.code = Absent \/ p.code \notin CodesOf(pack_items)
         /\ pack' = p
         /\ pack_n' = pack_n + 1
         /\ IF ~p.obj THEN
                \* p.get("name") of a value that has no get
                /\ Terminate("AttributeError")
                /\ UNCHANGED <<validation_errors, retval, pack_items>>
            ELSE IF ~jsonschema_validate(p, PackRequired) THEN
                /\ validation_errors' = validation_errors + 1
                /\ retval' = FALSE
                /\ pack_items' = <<>>
                /\ UNCHANGED <<pc, end_vars>>
            ELSE IF custom_pack_check(p, cycles) = "TypeError" THEN
                \* the list comprehension iterates None
                /\ Terminate("TypeError")
                /\ UNCHANGED <<validation_errors, retval, pack_items>>
            ELSE IF custom_pack_check(p, cycles) = "raises" THEN
                /\ validation_errors' = validation_errors + 1
                /\ retval' = FALSE
                /\ pack_items' = <<>>
                /\ UNCHANGED <<pc, end_vars>>
            ELSE
                /\ pack_items' = IF retval THEN Append(pack_items, p) ELSE <<>>
                /\ UNCHANGED <<validation_errors, retval, pc, end_vars>>
    /\ UNCHANGED <<fix_formatting, formatting_errors, files, cycle_vars, packs_data,
                   packs, card_vars, loader_vars>>

\* validate_packs, line 224, and load_pack_index, lines 101-109: the loop is
\* over.  With every pack valid, check_file_access looks for the file of each
\* pack and ends the run at one that is missing; main receives the list, or
\* None.  The locals of the two functions are gone.
validate_packs_return ==
    /\ pc = "validate_packs_loop"
    /\ MayEnd(packs_data, pack_n)
    /\ IF ~retval THEN
           /\ packs' = load_pack_index_return(FALSE, pack_items)
           /\ pc' = "main_cards"
           /\ UNCHANGED <<files, end_vars>>
       ELSE
           \E missing \in SUBSET CodesOf(pack_items) :
              /\ files' = [q \in Paths |->
                             IF q \in {PackPath(c) : c \in CodesOf(pack_items)}
                             THEN (IF q[2] \in missing THEN "missing" ELSE "exists")
                             ELSE files[q]]
              /\ IF missing # {}
                 THEN Terminate("SystemExit") /\ UNCHANGED packs
                 ELSE /\ packs' = load_pack_index_return(TRUE, pack_items)
                      /\ pc' = "main_cards"
                      /\ UNCHANGED end_vars
    /\ packs_data' = NoneValue
    /\ pack_items' = <<>>
    /\ pack_n' = 0
    /\ retval' = TRUE
    /\ UNCHANGED <<fix_formatting, formatting_errors, validation_errors, cycle_vars,
                   pack, card_vars, loader_vars>>

\* main, lines 246-247: no pack list, the card stage is skipped.
skip_cards ==
    /\ pc = "main_cards"
    /\ ~cards_stage_runs(packs)
    /\ out' = out \cup {"skip"}
    /\ pc' = "summary"
    /\ UNCHANGED <<fix_formatting, formatting_errors, validation_errors, files,
                   cycle_vars, pack_vars, retval, card_vars, loader_vars, exception,
                   exit_status>>

\* main, lines 244-245, and validate_cards, lines 145-154: the card schema is
\* loaded and checked; without it validate_cards returns at once.
validate_cards ==
    /\ pc = "main_cards"
    /\ cards_stage_runs(packs)
    /\ \E raw \in RunTexts, writable \in BOOLEAN :
         LET r == load_json_file(raw, fix_formatting, writable)
             CARD_SCHEMA == r.ret
             checked == check_json_schema(CARD_SCHEMA)
         IN  /\ files' = [files EXCEPT ![CardSchemaPath] = SchemaFound(raw)]
             /\ formatting_errors' = formatting_errors + r.fe
             /\ IF r.raised # "none" THEN
                    /\ Terminate(r.raised)
                    /\ validation_errors' = validation_errors + r.ve
                    /\ UNCHANGED pack_j
                ELSE IF ~Truthy(CARD_SCHEMA) THEN
                    /\ validation_errors' = validation_errors + r.ve
                    /\ pc' = "summary"
                    /\ UNCHANGED <<pack_j, end_vars>>
                ELSE IF ~checked.ok THEN
                    /\ validation_errors' = validation_errors + r.ve + checked.ve
                    /\ pc' = "summary"
                    /\ UNCHANGED <<pack_j, end_vars>>
                ELSE
                    /\ validation_errors' = validation_errors + r.ve
                    /\ pack_j' = 1
                    /\ pc' = "validate_cards_loop"
                    /\ UNCHANGED end_vars
    /\ UNCHANGED <<fix_formatting, cycle_vars, pack_vars, retval, pack_data, card_i,
                   card, loader_vars>>

\* validate_cards, lines 156-162: the file of the next pack is loaded; its
\* existence was checked by load_pack_index.  A document that is a non-empty
\* non-list is iterated and validate_card raises a TypeError on its elements
\* (an object, a string), or the iteration itself does (a number).
load_pack_file ==
    /\ pc = "validate_cards_loop"
    /\ pack_j <= Len(packs.items)
    /\ \E raw \in RunTexts \ {MissingFile}, writable \in BOOLEAN :
         LET r == load_json_file(raw, fix_formatting, writable)
         IN  /\ formatting_errors' = formatting_errors + r.fe
             /\ validation_errors' = validation_errors + r.ve
             /\ IF r.raised # "none" THEN
                    /\ Terminate(r.raised)
                    /\ UNCHANGED <<pack_j, pack_data, card_i>>
                ELSE IF ~Truthy(r.ret) THEN
                    /\ pack_j' = pack_j + 1
                    /\ UNCHANGED <<pc, pack_data, card_i, end_vars>>
                ELSE IF ~IsList(r.ret) THEN
                    /\ Terminate("TypeError")
                    /\ pack_data' = r.ret
                    /\ UNCHANGED <<pack_j, card_i>>
                ELSE
                    /\ pack_data' = r.ret
                    /\ card_i' = 0
                    /\ pc' = "validate_card_loop"
                    /\ UNCHANGED <<pack_j, end_vars>>
    /\ UNCHANGED <<fix_formatting, files, cycle_vars, pack_vars, retval, card,
                   loader_vars>>

\* validate_cards, lines 164-165, and validate_card, lines 131-143: the next
\* card of the pack file is validated.
validate_card ==
    /\ pc = "validate_card_loop"
    /\ card_i < MaxCards
    /\ \E c \in CardItems :
         /\ card' = c
         /\ card_i' = card_i + 1
         /\ IF ~c.obj THEN
                \* card["name"] of a value that is no object
                /\ Terminate("TypeError")
                /\ UNCHANGED validation_errors
            ELSE IF c.name = Absent THEN
                \* card["name"], line 135, before the schema is consulted
                /\ Terminate("KeyError")
                /\ UNCHANGED validation_errors
            ELSE IF ~jsonschema_validate(c, CardRequired) THEN
                /\ validation_errors' = validation_errors + 1
                /\ UNCHANGED <<pc, end_vars>>
            ELSE IF custom_card_check(c, packs.items[pack_j].code) = "raises" THEN
                /\ validation_errors' = validation_errors + 1
                /\ UNCHANGED <<pc, end_vars>>
            ELSE
                UNCHANGED <<validation_errors, pc, end_vars>>
    /\ UNCHANGED <<fix_formatting, formatting_errors, files, cycle_vars, pack_vars,
                   retval, pack_j, pack_data, loader_vars>>

\* validate_cards, line 156: the cards of the pack file are done, the loop
\* over the packs goes on.
next_pack ==
    /\ pc = "validate_card_loop"
    /\ MayEnd(pack_data, card_i)
    /\ pack_j' = pack_j + 1
    /\ pc' = "validate_cards_loop"
    /\ UNCHANGED <<fix_formatting, formatting_errors, validation_errors, files,
                   cycle_vars, pack_vars, retval, pack_data, card_i, card, loader_vars,
                   end_vars>>

\* validate_cards returns after the last pack.
validate_cards_return ==
    /\ pc = "validate_cards_loop"
    /\ pack_j > Len(packs.items)
    /\ pc' = "summary"
    /\ UNCHANGED <<fix_formatting, formatting_errors, validation_errors, files,
                   cycle_vars, pack_vars, retval, card_vars, loader_vars, end_vars>>

\* main, lines 249-253: the summary line and the exit status.
summary ==
    /\ pc = "summary"
    /\ out' = out \cup {"summary"}
    /\ exit_status' = exit_code(formatting_errors, validation_errors)
    /\ pc' = "exited"
    /\ UNCHANGED <<fix_formatting, formatting_errors, validation_errors, files,
                   cycle_vars, pack_vars, retval, card_vars, loader_vars, exception>>

Next ==
    \/ load_cycles
    \/ validate_cycles
    \/ validate_cycle
    \/ validate_cycles_return
    \/ load_pack_index
    \/ validate_packs
    \/ validate_pack
    \/ validate_packs_return
    \/ skip_cards
    \/ validate_cards
    \/ load_pack_file
    \/ validate_card
    \/ next_pack
    \/ validate_cards_return
    \/ summary

Spec == Init /\ [][Next]_vars

---------------------------------------------------------------------------
\* load_json_file on its own

\* Any file, in either mode, before the first call.
LoaderInit ==
    /\ fix_formatting \in BOOLEAN
    /\ formatting_errors = 0
    /\ validation_errors = 0
    /\ pc = "loader"
    /\ files = [q \in Paths |-> "unopened"]
    /\ cycles_data = NoneValue
    /\ cycle_items = <<>>
    /\ cycles = NoneList
    /\ packs_data = NoneValue
    /\ pack_n = 0
    /\ pack = NoPack
    /\ pack_items = <<>>
    /\ packs = NoneList
    /\ retval = TRUE
    /\ pack_j = 0
    /\ pack_data = NoneValue
    /\ card_i = 0
    /\ card = NoCard
    /\ out = {}
    /\ exception = "none"
    /\ exit_status = -1
    /\ disk \in Texts
    /\ ret = NoneValue
    /\ loads = 0

\* load_json_file, lines 55-84, called on the file; an exception that leaves
\* it ends the run.
call_load_json_file ==
    /\ pc = "loader"
    /\ loads < MaxLoads
    /\ \E writable \in BOOLEAN :
         LET r == load_json_file(disk, fix_formatting, writable)
         IN  /\ disk' = r.disk
             /\ ret' = r.ret
             /\ loads' = loads + 1
             /\ formatting_errors' = formatting_errors + r.fe
             /\ validation_errors' = validation_errors + r.ve
             /\ IF r.raised # "none"
                THEN Terminate(r.raised)
                ELSE UNCHANGED <<pc, end_vars>>
    /\ UNCHANGED <<fix_formatting, files, cycle_vars, pack_vars, retval, card_vars>>

LoaderNext == call_load_json_file

LoaderSpec == LoaderInit /\ [][LoaderNext]_vars

---------------------------------------------------------------------------
\* Properties of a run of main (Spec)

\* The run reached the end of main: no exception and no sys.exit(message).
RanToEnd == pc = "exited" /\ exception = "none"

\* C1: both counters start at 0 and never decrease; a run that reaches the end
\* of main has printed the summary line and exits with status 0 exactly when
\* both counters are 0, and with status 1 otherwise.
C1_ExitStatus ==
    /\ formatting_errors = 0 /\ validation_errors = 0
    /\ [][/\ formatting_errors' >= formatting_errors
          /\ validation_errors' >= validation_errors]_vars
    /\ [](RanToEnd =>
            /\ "summary" \in out
            /\ (exit_status = 0) <=> (formatting_errors = 0 /\ validation_errors = 0)
            /\ (formatting_errors > 0 \/ validation_errors > 0) => exit_status = 1)

\* C1, its case: a run with formatting defects only ends with status 1.
C1_Witness ==
    /\ RanToEnd
    /\ formatting_errors > 0
    /\ validation_errors = 0
    /\ exit_status = 1

\* A cycles.json of two cycles, one violating the cycle schema and one
\* conforming to it, in either order.
OneBadOneGood(items) ==
    /\ Len(items) = 2
    /\ \E i, j \in 1..2 :
         /\ i # j
         /\ ~jsonschema_validate(items[i], CycleRequired)
         /\ jsonschema_validate(items[j], CycleRequired)

\* The code of the conforming cycle of such a list.
GoodCodes(items) ==
    {items[j].code : j \in {k \in 1..Len(items) : jsonschema_validate(items[k], CycleRequired)}}

\* C3 as stated: with a canonical cycles.json of one violating and one
\* conforming cycle, the cycle stage adds exactly one validation defect and
\* hands the conforming cycle's code to stage 2.
C3_Original ==
    [][(/\ pc = "validate_cycles_loop"
        /\ pc' = "load_pack_index"
        /\ formatting_errors = 0
        /\ OneBadOneGood(cycle_items))
       => (/\ validation_errors' = 1
           /\ ~cycles'.none
           /\ GoodCodes(cycle_items) \subseteq CodesOf(cycles'.items))]_vars

\* The card the step handed to validate_card violates the card schema or names
\* another pack than the one whose file holds it.
BadCard(c, pack_code) ==
    ~jsonschema_validate(c, CardRequired) \/ c.pack_code # pack_code

\* C4 as stated: every card handed to validate_card adds exactly one validation
\* defect when it violates the schema or names another pack, none when it
\* passes both, and never stops the run.
C4_Original ==
    [][(pc = "validate_card_loop" /\ card_i' = card_i + 1)
       => (/\ exception' = "none"
           /\ validation_errors' = validation_errors
                + (IF BadCard(card', packs.items[pack_j].code) THEN 1 ELSE 0))]_vars

\* The pack names a cycle that is not in the list stage 1 returned.
NoSuchCycle(p) == p.obj /\ p.cycle_code \notin CodesOf(cycles.items)

\* C5: with a usable pack schema and the list of a successful stage 1, a pack
\* whose cycle_code is the code of no cycle adds exactly one validation defect,
\* whether or not it conforms to the schema, a conforming pack of an existing
\* cycle adds none, and after such a defect the pack stage returns None.
C5_CrossCheck ==
    /\ [][(pc = "validate_packs_loop" /\ pack_n' = pack_n + 1 /\ ~cycles.none)
          => (/\ NoSuchCycle(pack')
                 => (validation_errors' = validation_errors + 1 /\ ~retval')
              /\ (jsonschema_validate(pack', PackRequired) /\ ~NoSuchCycle(pack'))
                 => validation_errors' = validation_errors)]_vars
    /\ [][(pc = "validate_packs_loop" /\ pc' = "main_cards" /\ ~retval)
          => packs' = NoneList]_vars
    /\ [][(pc = "validate_packs_loop" /\ ~retval) => ~retval' \/ pc' = "main_cards"]_vars

\* C5, its case: a pack that conforms to the schema and names no cycle of the
\* list was validated.
C5_Witness ==
    /\ pc = "validate_packs_loop"
    /\ ~cycles.none
    /\ jsonschema_validate(pack, PackRequired)
    /\ NoSuchCycle(pack)
    /\ validation_errors = 1
    /\ ~retval

\* The schema documents that are absent or no Draft 4 schema.
UnusableSchemas == {"not_json", "null", "empty_list", "number", "object"}

\* C6 as stated, its conclusion: a run in which a schema document was absent
\* or did not conform to Draft 4 does not end with exit status 0.
C6_Original ==
    (RanToEnd /\ \E sp \in SchemaPaths : files[sp] \in UnusableSchemas)
    => exit_status # 0

\* The pack schema file held a JSON object that failed the self-check.
PackSchemaRejected == files[PackSchemaPath] = "object"

\* C7: when the pack schema parses as an object and fails the self-check while
\* packs.json is a list, validate_packs adds exactly one validation defect,
\* iterates no pack, main receives None, and from then on no pack or card is
\* validated, the card schema is not opened and the counter stays.
C7_SchemaRejected ==
    /\ [][(/\ pc = "validate_packs"
           /\ IsList(packs_data)
           /\ files'[PackSchemaPath] = "object")
          => (/\ validation_errors' = validation_errors + 1
              /\ pc' = "main_cards"
              /\ packs' = NoneList)]_vars
    /\ [][PackSchemaRejected => validation_errors' = validation_errors]_vars
    /\ [](PackSchemaRejected =>
            /\ pack = NoPack /\ pack_n = 0
            /\ card = NoCard
            /\ files[CardSchemaPath] = "unopened"
            /\ pc \in {"main_cards", "summary", "exited"})

\* C7, its case: packs.json was a non-empty list and the run went on to the
\* summary with the one defect of the schema.
C7_Witness ==
    /\ PackSchemaRejected
    /\ files[PacksPath] = "list"
    /\ files[CycleSchemaPath] = "schema"
    /\ files[CyclesPath] = "list"
    /\ ~cycles.none
    /\ validation_errors = 1
    /\ RanToEnd

\* C9 as stated: after a failed stage 1 every pack that conforms to the pack
\* schema is recorded as one validation defect and the run goes on.
C9_Original ==
    [][(/\ pc = "validate_packs_loop"
        /\ pack_n' = pack_n + 1
        /\ cycles.none
        /\ jsonschema_validate(pack', PackRequired))
       => (validation_errors' = validation_errors + 1 /\ exception' = "none")]_vars

\* The card stage has begun: the card schema was opened, or a pack file or a
\* card is being or has been processed.
CardStageBegun ==
    \/ files[CardSchemaPath] # "unopened"
    \/ pc \in {"validate_cards_loop", "validate_card_loop"}
    \/ card # NoCard

\* C10: the stages run in the order cycles, pack index, cards; the card stage
\* begins only with a non-empty pack list from load_pack_index, which takes a
\* packs.json that is a list, a usable pack schema, packs that all pass the
\* schema and the cross-check and whose files all exist; a run that reaches
\* the end of main without such a list has validated no card and printed the
\* skip line and the summary; and a run goes on until it exits.
C10_Gate ==
    /\ files[PacksPath] # "unopened"
       => (files[CyclesPath] # "unopened" /\ files[CycleSchemaPath] # "unopened")
    /\ files[PackSchemaPath] # "unopened" => files[PacksPath] # "unopened"
    /\ CardStageBegun
       => (/\ files[PackSchemaPath] = "schema"
           /\ files[PacksPath] = "list"
           /\ ~packs.none
           /\ Len(packs.items) > 0
           /\ ~cycles.none
           /\ \A i \in 1..Len(packs.items) :
                /\ jsonschema_validate(packs.items[i], PackRequired)
                /\ packs.items[i].cycle_code \in CodesOf(cycles.items)
                /\ files[PackPath(packs.items[i].code)] = "exists")
    /\ (RanToEnd /\ (packs.none \/ Len(packs.items) = 0))
       => (~CardStageBegun /\ {"skip", "summary"} \subseteq out)
    /\ RanToEnd => "summary" \in out
    /\ pc # "exited" => ENABLED Next

\* C10, its case: cards were validated and the run reached the summary.
C10_Witness ==
    /\ RanToEnd
    /\ card # NoCard
    /\ card_i = 2
    /\ pack_j = 3

---------------------------------------------------------------------------
\* Properties of load_json_file (LoaderSpec)

\* C2 as stated: a call returns the parsed document or None, no exception
\* leaves it, and a file that yields no document adds one validation defect
\* and returns None.
C2_Original ==
    [][loads' = loads + 1
       => (/\ exception' = "none"
           /\ ret' = (IF Parses(disk) THEN json_loads(disk) ELSE NoneValue)
           /\ ~Parses(disk) => validation_errors' = validation_errors + 1)]_vars

\* C8 as stated: loading a parseable file adds one formatting defect when its
\* text differs from the canonical text of its value and none when it is that
\* text, leaves the validation counter, returns the parsed document, writes the
\* file only when the text differs in fix mode, and the written file holds the
\* canonical text.
C8_Original ==
    [][(loads' = loads + 1 /\ Parses(disk))
       => LET canonical == format_json(json_loads(disk))
          IN  /\ formatting_errors' = formatting_errors
                   + (IF disk # canonical THEN 1 ELSE 0)
              /\ validation_errors' = validation_errors
              /\ exception' = "none"
              /\ ret' = json_loads(disk)
              /\ disk' # disk => (disk # canonical /\ fix_formatting)
              /\ disk' # disk => disk' = canonical]_vars

====
